---- MODULE Spec2Model ----
(***************************************************************************)
(* trombi: an asynchronous CouchDB client (src/trombi/client.py).          *)
(*                                                                         *)
(* Two specifications share the definitions of this module:                *)
(*   Spec         the request/response operations of Server, Database and  *)
(*                Document: a call issues a fetch, the transport answers   *)
(*                with a status and a body, the operation's callback       *)
(*                classifies the answer and calls the caller's handler;    *)
(*   SpecChanges  the continuous changes feed: the transport hands byte    *)
(*                chunks to Database.changes._stream, decoded events are   *)
(*                queued on the io_loop and run later, and the request     *)
(*                completes through Database.changes._really_callback.     *)
(*                                                                         *)
(* Bytes and text are sequences of one-symbol strings.  An ASCII byte and  *)
(* the character it encodes are written as that character; the two bytes   *)
(* of the UTF-8 encoding of U+00E9 are written "C3" and "A9", and the      *)
(* character itself "U+E9".                                                *)
(***************************************************************************)
EXTENDS Integers, Sequences, FiniteSets, TLC

VARIABLES
    \* ---- Spec: one call of a request/response operation at a time
    call,           \* the operation called and its arguments
    pending,        \* callbacks of the fetches in flight for the call
    results,        \* what the caller's handler has been called with, in order
    raised,         \* the exception that escaped the operation or its callback
    handled,        \* the response the last callback was given
    fetches,        \* number of HTTP requests the call has issued
    \* ---- SpecChanges: the continuous changes requests
    wire,           \* wire[r]: the bytes the store sends on request r
    pos,            \* pos[r]: how many of them the transport has delivered
    stream_buffer,  \* stream_buffer[r]: the list captured by r's _stream
    state,          \* state[r]: "unused", "open", "failed" or "done"
    ioloop,         \* callbacks added to the io_loop and not yet run
    scheduled,      \* scheduled[r]: every event _stream has queued for r
    handler,        \* handler[r]: what r's handler has been called with
    \* ---- the objects the operations work on and build
    doc,            \* the Document the caller holds: id, rev, attachments, data
    entity,         \* the entity the call's callback built for the handler
    paginator,      \* the fields of the Paginator the caller holds
    python,         \* the major version of the interpreter: 2 or 3
    \* ---- SpecPaging: a Paginator walking one view of the store
    view,           \* the keys of the rows of the view, in ascending order
    seen            \* the last pages the caller's handler was given

vars == <<call, pending, results, raised, handled, fetches,
          wire, pos, stream_buffer, state, ioloop, scheduled, handler,
          doc, entity, paginator, python, view, seen>>

opVars == <<call, pending, results, raised, handled, fetches>>
feedVars == <<wire, pos, stream_buffer, state, ioloop, scheduled, handler>>
objVars == <<doc, entity, paginator, python>>
storeVars == <<view, seen>>

(***************************************************************************)
(* Python values.  A value is its type and its text: for bytes the bytes,  *)
(* for a str the characters, for a value json.loads built the JSON text    *)
(* it was built from, without the surrounding whitespace.                  *)
(***************************************************************************)
PyNone == [type |-> "NoneType", text |-> <<>>]
PyBytes(b) == [type |-> "bytes", text |-> b]
PyStr(s) == [type |-> "str", text |-> s]

\* The JSON documents of the model, as text.
J_empty == <<"{", "}">>
J_a == <<"{", "\"", "a", "\"", ":", "1", "}">>
J_e9 == <<"{", "\"", "U+E9", "\"", ":", "1", "}">>
J_reason == <<"{", "\"", "r", "e", "a", "s", "o", "n", "\"", ":", "\"", "r", "\"", "}">>
J_rows == <<"{", "\"", "r", "o", "w", "s", "\"", ":", "[", "]", "}">>
J_idrev == <<"{", "\"", "i", "d", "\"", ":", "\"", "d", "\"", ",",
             "\"", "r", "e", "v", "\"", ":", "\"", "1", "\"", "}">>
J_idrev2 == <<"{", "\"", "i", "d", "\"", ":", "\"", "e", "\"", ",",
              "\"", "r", "e", "v", "\"", ":", "\"", "2", "\"", "}">>
J_id == <<"{", "\"", "i", "d", "\"", ":", "\"", "e", "\"", "}">>
J_conflict == <<"{", "\"", "e", "r", "r", "o", "r", "\"", ":", "\"", "c", "\"", ",",
                "\"", "r", "e", "a", "s", "o", "n", "\"", ":", "\"", "r", "\"", "}">>
J_error == <<"{", "\"", "e", "r", "r", "o", "r", "\"", ":", "\"", "c", "\"", "}">>
J_list == <<"[", "]">>
J_str == <<"\"", "s", "\"">>
J_int == <<"1">>

JsonDicts ==
    {J_empty, J_a, J_e9, J_reason, J_rows, J_idrev, J_idrev2, J_id, J_conflict, J_error}

\* The bodies a store answers a bulk write with: a list of up to MaxBatch
\* per-document objects, each the id and revision written or an error (with
\* or without a reason).
MaxBatch == 3

BulkItems == {J_idrev, J_conflict, J_error}

RECURSIVE json_list(_)
json_list(items) ==
    IF items = <<>> THEN <<"[", "]">>
    ELSE IF Len(items) = 1 THEN <<"[">> \o items[1] \o <<"]">>
    ELSE <<"[">> \o items[1] \o <<",">> \o Tail(json_list(Tail(items)))

BulkBatches == UNION {[1..n -> BulkItems] : n \in 0..MaxBatch}

BulkTexts == {json_list(items) : items \in BulkBatches}

\* str.strip() and the whitespace json.loads skips around a document.
Whitespace == {" ", "\t", "\r", "\n"}

RECURSIVE lstrip(_)
lstrip(s) ==
    IF s # <<>> /\ Head(s) \in Whitespace THEN lstrip(Tail(s)) ELSE s

RECURSIVE rstrip(_)
rstrip(s) ==
    IF s # <<>> /\ s[Len(s)] \in Whitespace
    THEN rstrip(SubSeq(s, 1, Len(s) - 1))
    ELSE s

strip(s) == rstrip(lstrip(s))

(***************************************************************************)
(* bytes.decode('utf-8'): an ASCII byte is its character, "C3" "A9" is     *)
(* U+00E9, and a lead byte without its continuation byte or a continuation *)
(* byte on its own raises UnicodeDecodeError (a ValueError).               *)
(***************************************************************************)
utf8_ok(b) ==
    \A i \in 1..Len(b) :
        /\ b[i] = "C3" => (i < Len(b) /\ b[i + 1] = "A9")
        /\ b[i] = "A9" => (i > 1 /\ b[i - 1] = "C3")

\* The text of bytes that are UTF-8: a lead byte stands for its character
\* and its continuation byte for nothing more.
utf8_text(b) ==
    LET lead == [i \in 1..Len(b) |-> IF b[i] = "C3" THEN "U+E9" ELSE b[i]]
        character(c) == c # "A9"
    IN  SelectSeq(lead, character)

decode(b) == [ok |-> utf8_ok(b), text |-> IF utf8_ok(b) THEN utf8_text(b) ELSE <<>>]

\* str.encode('utf-8'), used to write text as the bytes of a body or a feed
\* (the text is encoded half by half).
RECURSIVE encode(_)
encode(s) ==
    IF s = <<>> THEN <<>>
    ELSE IF Len(s) = 1 THEN (IF s[1] = "U+E9" THEN <<"C3", "A9">> ELSE s)
    ELSE encode(SubSeq(s, 1, Len(s) \div 2)) \o encode(SubSeq(s, Len(s) \div 2 + 1, Len(s)))

(***************************************************************************)
(* json.loads on text: the documents above are decoded to a value of       *)
(* their type, every other text of the model (an empty text, a cut         *)
(* document, noise) raises ValueError.                                     *)
(***************************************************************************)
json_type(s) ==
    CASE s \in JsonDicts -> "dict"
      [] s \in BulkTexts -> "list"
      [] s = J_str -> "str"
      [] s = J_int -> "int"
      [] OTHER -> "ValueError"

json_loads(s) ==
    LET stripped == strip(s)
        t == json_type(stripped)
    IN  [ok |-> t # "ValueError",
         value |-> IF t = "str" THEN PyStr(<<"s">>)
                   ELSE IF t = "ValueError" THEN PyNone
                   ELSE [type |-> t, text |-> stripped]]

\* The keys of a decoded dict, and the item under a key (a str in every
\* document of the model that has one).
dict_keys(v) ==
    CASE v.text = J_a -> {"a"}
      [] v.text = J_e9 -> {"U+E9"}
      [] v.text = J_reason -> {"reason"}
      [] v.text = J_rows -> {"rows"}
      [] v.text = J_idrev -> {"id", "rev"}
      [] v.text = J_idrev2 -> {"id", "rev"}
      [] v.text = J_id -> {"id"}
      [] v.text = J_conflict -> {"error", "reason"}
      [] v.text = J_error -> {"error"}
      [] OTHER -> {}

dict_item(v, key) ==
    CASE v.text = J_reason /\ key = "reason" -> PyStr(<<"r">>)
      [] v.text = J_idrev /\ key = "id" -> PyStr(<<"d">>)
      [] v.text = J_idrev /\ key = "rev" -> PyStr(<<"1">>)
      [] v.text = J_idrev2 /\ key = "id" -> PyStr(<<"e">>)
      [] v.text = J_idrev2 /\ key = "rev" -> PyStr(<<"2">>)
      [] v.text = J_id /\ key = "id" -> PyStr(<<"e">>)
      [] v.text = J_conflict /\ key = "error" -> PyStr(<<"c">>)
      [] v.text = J_conflict /\ key = "reason" -> PyStr(<<"r">>)
      [] v.text = J_error /\ key = "error" -> PyStr(<<"c">>)
      [] v.text = J_rows /\ key = "rows" -> [type |-> "list", text |-> J_list]
      [] OTHER -> [type |-> "int", text |-> J_int]

\* The elements of a decoded list, in order.
list_items(v) ==
    LET items == CHOOSE items \in BulkBatches : json_list(items) = v.text
    IN  [i \in 1..Len(items) |-> [type |-> "dict", text |-> items[i]]]

\* content[key]: KeyError on a dict without the key, TypeError on a list, a
\* str, an int or None.
subscript(v, key) ==
    IF v.type = "dict"
    THEN IF key \in dict_keys(v)
         THEN [exc |-> "", ret |-> dict_item(v, key)]
         ELSE [exc |-> "KeyError", ret |-> PyNone]
    ELSE [exc |-> "TypeError", ret |-> PyNone]

\* dict(obj), which TrombiDict(obj) is: a dict, an empty list and an empty
\* str convert; an int and None are not iterable (TypeError), a non-empty
\* str has elements of the wrong length (ValueError).
dict_exc(v) ==
    CASE v.type = "dict" -> ""
      [] v.type = "list" -> IF v.text = J_list THEN "" ELSE "TypeError"
      [] v.type = "str" -> IF v.text = <<>> THEN "" ELSE "ValueError"
      [] OTHER -> "TypeError"

(***************************************************************************)
(* Responses of the transport: a status and a body.  A transport failure   *)
(* is status 599 with no body (None); every other status comes with the    *)
(* bytes of a body.                                                        *)
(***************************************************************************)
Codes == {200, 201, 404, 409, 412, 500}

Bodies ==
    {<<>>, <<"x">>, <<"A9">>,
     encode(J_empty), encode(J_reason), encode(J_rows), encode(J_idrev),
     encode(J_idrev2), encode(J_id), encode(J_list), encode(J_str)}

Unreachable == [code |-> 599, body |-> PyNone]

Responses == {Unreachable} \cup {[code |-> c, body |-> PyBytes(b)] : c \in Codes, b \in Bodies}

NoResponse == [cb |-> "", code |-> 0, body |-> PyNone]

\* trombi.errors
PRECONDITION_FAILED == 412
NOT_FOUND == 404
INVALID_DATABASE_NAME == 51

(***************************************************************************)
(* What a handler is called with: an error object with its errno and msg,  *)
(* or a result named by its kind (None is the kind "None").                *)
(***************************************************************************)
TrombiErrorResponse(errno, msg) ==
    [kind |-> "TrombiErrorResponse", errno |-> errno, msg |-> msg]

Result(kind) == [kind |-> kind, errno |-> 0, msg |-> PyNone]

\* A function's end: the value it returns or the exception it raises.
Return(v) == [exc |-> "", ret |-> v]
Throw(e) == [exc |-> e, ret |-> PyNone]

\* except ValueError also catches UnicodeDecodeError, its subclass.
IsValueError(e) == e \in {"ValueError", "UnicodeDecodeError"}

\* json.loads(body.decode('utf-8')): None has no decode (AttributeError).
loads_body(body) ==
    IF body.type = "NoneType" THEN Throw("AttributeError")
    ELSE LET d == decode(body.text)
         IN  IF ~d.ok THEN Throw("UnicodeDecodeError")
             ELSE IF ~json_loads(d.text).ok THEN Throw("ValueError")
             ELSE Return(json_loads(d.text).value)

\* A variant of _error_response that always reports the raw body.
error_response_raw(response) ==
    IF response.code = 599
    THEN Return(TrombiErrorResponse(599, PyStr(<<"Unable to connect to CouchDB">>)))
    ELSE Return(TrombiErrorResponse(response.code, response.body))

_error_response(response) ==
    IF response.code = 599
    THEN Return(TrombiErrorResponse(599, PyStr(<<"Unable to connect to CouchDB">>)))
    ELSE LET content == loads_body(response.body)
         IN  IF IsValueError(content.exc)
             THEN Return(TrombiErrorResponse(response.code, response.body))
             ELSE IF content.exc # "" THEN Throw(content.exc)
             ELSE LET reason == subscript(content.ret, "reason")
                  IN  IF reason.exc = ""
                      THEN Return(TrombiErrorResponse(response.code, reason.ret))
                      ELSE Return(TrombiErrorResponse(response.code, content.ret))

(***************************************************************************)
(* What running a piece of an operation does: the handler calls it makes,  *)
(* the fetches it issues (each named by the callback it was given), and    *)
(* the exception that ends it, if any.                                     *)
(***************************************************************************)
Nothing == [deliver |-> <<>>, fetch |-> {}, exc |-> ""]
callback(x) == [deliver |-> <<x>>, fetch |-> {}, exc |-> ""]
Raise(e) == [deliver |-> <<>>, fetch |-> {}, exc |-> e]
_fetch(cb) == [deliver |-> <<>>, fetch |-> {cb}, exc |-> ""]

\* callback(f(...)): when f raises, the handler is not called.
callback_ret(r) == IF r.exc # "" THEN Raise(r.exc) ELSE callback(r.ret)

\* a; b
Then(a, b) ==
    IF a.exc # "" THEN a
    ELSE [deliver |-> a.deliver \o b.deliver,
          fetch |-> a.fetch \cup b.fetch,
          exc |-> b.exc]

(***************************************************************************)
(* VALID_DB_NAME = ^[a-z][a-z0-9_$()+-/]*$ (+-/ is the range + , - . /).   *)
(***************************************************************************)
Lower == {"a", "b", "c", "d", "e", "f", "g", "h", "i", "j", "k", "l", "m",
          "n", "o", "p", "q", "r", "s", "t", "u", "v", "w", "x", "y", "z"}
Digit == {"0", "1", "2", "3", "4", "5", "6", "7", "8", "9"}

VALID_DB_NAME(name) ==
    /\ name # <<>>
    /\ name[1] \in Lower
    /\ \A i \in 2..Len(name) :
          name[i] \in Lower \cup Digit \cup {"_", "$", "(", ")", "+", ",", "-", ".", "/"}

Names == {<<"d", "b">>, <<"d", "1">>, <<"d", "/">>, <<"D", "b">>, <<"1", "d">>,
          <<"_", "d">>, <<"d", "B">>, <<>>}

_invalid_db_name(name) ==
    TrombiErrorResponse(INVALID_DATABASE_NAME,
                        PyStr(<<"Invalid database name: ">> \o name))

(***************************************************************************)
(* Document: a dict is a list of <<key, value>> items in insertion order,  *)
(* a key is a str, and chars gives the characters of the keys of the       *)
(* model.                                                                  *)
(***************************************************************************)
PyInt == [type |-> "int", text |-> J_int]
PyDict(items) == [type |-> "dict", items |-> items]

chars ==
    [k \in {"_id", "_rev", "_attachments", "_data", "_deleted", "_x", "a", "b",
            "U+E9", "id", "rev", "rows", "reason", "error"} |->
        CASE k = "_id" -> <<"_", "i", "d">>
          [] k = "_rev" -> <<"_", "r", "e", "v">>
          [] k = "_attachments" -> <<"_", "a", "t", "t", "a", "c", "h", "m", "e", "n", "t", "s">>
          [] k = "_data" -> <<"_", "d", "a", "t", "a">>
          [] k = "_deleted" -> <<"_", "d", "e", "l", "e", "t", "e", "d">>
          [] k = "_x" -> <<"_", "x">>
          [] k = "id" -> <<"i", "d">>
          [] k = "rev" -> <<"r", "e", "v">>
          [] k = "rows" -> <<"r", "o", "w", "s">>
          [] k = "reason" -> <<"r", "e", "a", "s", "o", "n">>
          [] k = "error" -> <<"e", "r", "r", "o", "r">>
          [] OTHER -> <<k>>]

\* key.startswith(prefix), for a prefix of one character
startswith(key, prefix) == chars[key] # <<>> /\ chars[key][1] = prefix

\* bool(v): None, '' and an empty dict are false, and so is a Document
\* without fields (its __len__ is 0).
truthy(v) ==
    CASE v.type = "NoneType" -> FALSE
      [] v.type = "dict" -> v.items # <<>>
      [] v.type = "Document" -> v.self.data # <<>>
      [] OTHER -> v.text # <<>>

\* key in d, d[key], d[key] = value and del d[key] on the items of a dict
has_key(items, key) == \E i \in 1..Len(items) : items[i][1] = key

getitem(items, key) ==
    items[CHOOSE i \in 1..Len(items) : items[i][1] = key][2]

setitem(items, key, value) ==
    IF has_key(items, key)
    THEN [i \in 1..Len(items) |-> IF items[i][1] = key THEN <<key, value>> ELSE items[i]]
    ELSE Append(items, <<key, value>>)

delitem(items, key) ==
    LET keep(item) == item[1] # key IN SelectSeq(items, keep)

\* d.update(other)
RECURSIVE update(_, _)
update(items, other) ==
    IF other = <<>> THEN items
    ELSE update(setitem(items, Head(other)[1], Head(other)[2]), Tail(other))

\* Two dicts are equal when they hold the same items, in any order.
dict_eq(a, b) ==
    {a[i] : i \in 1..Len(a)} = {b[i] : i \in 1..Len(b)}

\* Document.__setitem__, on the fields of the document
Document___setitem__(self, key, value) ==
    IF startswith(key, "_")
    THEN [exc |-> "KeyError", self |-> self]
    ELSE [exc |-> "", self |-> [self EXCEPT !.data = setitem(self.data, key, value)]]

\* Document.__delitem__
Document___delitem__(self, key) ==
    IF ~has_key(self.data, key)
    THEN [exc |-> "KeyError", self |-> self]
    ELSE [exc |-> "", self |-> [self EXCEPT !.data = delitem(self.data, key)]]

\* setattr(self, key[1:], value) for the reserved keys of the wire data:
\* the attribute named by the rest of the key is set, whichever it is
\* (another name than the four fields leaves the fields alone).
setattr(self, key, value) ==
    LET name == Tail(chars[key])
    IN  CASE name = <<"i", "d">> -> [self EXCEPT !.id = value]
          [] name = <<"r", "e", "v">> -> [self EXCEPT !.rev = value]
          [] name = Tail(chars["_attachments"]) -> [self EXCEPT !.attachments = value.items]
          [] name = <<"d", "a", "t", "a">> -> [self EXCEPT !.data = value.items]
          [] OTHER -> self

RECURSIVE Document___init___loop(_, _)
Document___init___loop(self, items) ==
    IF items = <<>> THEN self
    ELSE LET key == Head(items)[1]
             value == Head(items)[2]
         IN  Document___init___loop(
                 IF startswith(key, "_") THEN setattr(self, key, value)
                 ELSE Document___setitem__(self, key, value).self,
                 Tail(items))

\* Document(db, data), data being the items of a dict
Document(data) ==
    Document___init___loop(
        [id |-> PyNone, rev |-> PyNone, attachments |-> <<>>, data |-> <<>>], data)

\* A variant of Document.raw that leaves the attachments out.
Document_raw_no_attachments(self) ==
    update((IF truthy(self.id) THEN << <<"_id", self.id>> >> ELSE <<>>)
           \o (IF truthy(self.rev) THEN << <<"_rev", self.rev>> >> ELSE <<>>),
           self.data)

\* Document.raw
Document_raw(self) ==
    update((IF truthy(self.id) THEN << <<"_id", self.id>> >> ELSE <<>>)
           \o (IF truthy(self.rev) THEN << <<"_rev", self.rev>> >> ELSE <<>>)
           \o (IF self.attachments # <<>>
               THEN << <<"_attachments", PyDict(self.attachments)>> >> ELSE <<>>),
           self.data)

\* The attachment entries: one given inline with its data (Database.set),
\* one the store lists as a stub, one Document.attach records.
inline_attachment == [content_type |-> "text/plain", data |-> "ZGF0YQ=="]
stub_attachment(length) == [content_type |-> "text/plain", length |-> length, stub |-> TRUE]

\* The wire data of the model: dicts of up to MaxFields of these items, in
\* any order, no key twice.
MaxFields == 3

WireItems ==
    {<<"_id", PyStr(<<"d">>)>>, <<"_id", PyStr(<<>>)>>, <<"_rev", PyStr(<<"1">>)>>,
     <<"_attachments", PyDict(<< <<"n", stub_attachment(4)>> >>)>>,
     <<"_data", PyDict(<< <<"_x", PyInt>> >>)>>,
     <<"_deleted", PyInt>>,
     <<"a", PyInt>>}

WireData ==
    {items \in UNION {[1..n -> WireItems] : n \in 0..MaxFields} :
        \A i, j \in 1..Len(items) : items[i][1] = items[j][1] => i = j}

NoDocument == [id |-> PyNone, rev |-> PyNone, attachments |-> <<>>, data |-> <<>>]

\* What a callback built for the handler, when it built something.
NoEntity == [kind |-> "None"]

(***************************************************************************)
(* A call: the operation and the arguments the model varies.               *)
(***************************************************************************)
Call(op) ==
    [op |-> op, name |-> <<>>, create |-> FALSE, inline |-> FALSE,
     persisted |-> TRUE, feed |-> "normal",
     doc |-> NoDocument, doc_id |-> PyNone, body |-> <<>>,
     key |-> "", batch |-> 0, forward |-> TRUE, kwargs |-> <<>>, step |-> ""]

NoCall == Call("")

\* The caller calls an operation (one call at a time: pending = {}): its
\* body runs up to its fetch.
Begin(c, o) ==
    /\ call' = c
    /\ results' = o.deliver
    /\ pending' = o.fetch
    /\ raised' = o.exc
    /\ handled' = NoResponse
    /\ fetches' = Cardinality(o.fetch)
    /\ UNCHANGED feedVars
    /\ UNCHANGED storeVars

\* A call that builds nothing and leaves the caller's objects alone.
Start(c, o) ==
    /\ Begin(c, o)
    /\ entity' = NoEntity
    /\ UNCHANGED <<doc, paginator, python>>

\* The transport answers the fetch that was given callback cb.
Reply(cb, response, o) ==
    /\ results' = results \o o.deliver
    /\ pending' = (pending \ {cb}) \cup o.fetch
    /\ raised' = o.exc
    /\ handled' = [cb |-> cb, code |-> response.code, body |-> response.body]
    /\ fetches' = fetches + Cardinality(o.fetch)
    /\ UNCHANGED <<call>>
    /\ UNCHANGED feedVars

\* The same for an operation that is no page fetch of the Paginator's walk.
Answer(cb, response, o) ==
    /\ Reply(cb, response, o)
    /\ UNCHANGED storeVars

\* A callback that builds nothing and leaves the caller's objects alone.
Receive(cb, response, o) ==
    /\ Answer(cb, response, o)
    /\ UNCHANGED objVars

(***************************************************************************)
(* Server                                                                  *)
(***************************************************************************)
\* The body of Server.create: the name check calls the handler and falls
\* through to the fetch.
Server_create_body(name) ==
    Then(IF ~VALID_DB_NAME(name) THEN callback(_invalid_db_name(name)) ELSE Nothing,
         _fetch("Server.create"))

Server_create ==
    /\ pending = {}
    /\ \E name \in Names :
        Start([Call("Server.create") EXCEPT !.name = name], Server_create_body(name))

\* A variant of Server.create's callback without the 412 branch.
Server_create__create_callback_no412 ==
    /\ "Server.create" \in pending
    /\ \E response \in Responses :
        Receive("Server.create", response,
            IF response.code = 201 THEN callback(Result("Database"))
            ELSE callback_ret(_error_response(response)))

Server_create__create_callback ==
    /\ "Server.create" \in pending
    /\ \E response \in Responses :
        Receive("Server.create", response,
            IF response.code = 201 THEN callback(Result("Database"))
            ELSE IF response.code = 412
                 THEN callback(TrombiErrorResponse(PRECONDITION_FAILED,
                                   PyStr(<<"Database already exists: ">> \o call.name)))
            ELSE callback_ret(_error_response(response)))

Server_get ==
    /\ pending = {}
    /\ \E name \in Names, create \in BOOLEAN :
        Start([Call("Server.get") EXCEPT !.name = name, !.create = create],
              Then(IF ~VALID_DB_NAME(name) THEN callback(_invalid_db_name(name)) ELSE Nothing,
                   _fetch("Server.get")))

Server_get__really_callback ==
    /\ "Server.get" \in pending
    /\ \E response \in Responses :
        Receive("Server.get", response,
            IF response.code = 200 THEN callback(Result("Database"))
            ELSE IF response.code = 404
                 THEN IF call.create
                      THEN Server_create_body(call.name)
                      ELSE callback(TrombiErrorResponse(NOT_FOUND,
                                        PyStr(<<"Database not found: ">> \o call.name)))
            ELSE callback_ret(_error_response(response)))

Server_delete ==
    /\ pending = {}
    /\ \E name \in Names :
        Start([Call("Server.delete") EXCEPT !.name = name], _fetch("Server.delete"))

Server_delete__really_callback ==
    /\ "Server.delete" \in pending
    /\ \E response \in Responses :
        Receive("Server.delete", response,
            IF response.code = 200 THEN callback(Result("TrombiObject"))
            ELSE IF response.code = 404
                 THEN callback(TrombiErrorResponse(NOT_FOUND,
                                   PyStr(<<"Database does not exist: ">> \o call.name)))
            ELSE callback_ret(_error_response(response)))

Server_list ==
    /\ pending = {}
    /\ Start(Call("Server.list"), _fetch("Server.list"))

\* The generator's iterable, json.loads(body), is evaluated before the
\* handler is called; an int is not iterable.
Server_list__really_callback ==
    /\ "Server.list" \in pending
    /\ \E response \in Responses :
        Receive("Server.list", response,
            IF response.code = 200
            THEN LET content == loads_body(response.body)
                 IN  IF content.exc # "" THEN Raise(content.exc)
                     ELSE IF content.ret.type = "int" THEN Raise("TypeError")
                     ELSE callback(Result("generator"))
            ELSE callback_ret(_error_response(response)))

(***************************************************************************)
(* Database                                                                *)
(***************************************************************************)
Database_info ==
    /\ pending = {}
    /\ Start(Call("Database.info"), _fetch("Database.info"))

Database_info__really_callback ==
    /\ "Database.info" \in pending
    /\ \E response \in Responses :
        Receive("Database.info", response,
            IF response.code = 200
            THEN LET content == loads_body(response.body)
                 IN  IF content.exc # "" THEN Raise(content.exc)
                     ELSE IF dict_exc(content.ret) # "" THEN Raise(dict_exc(content.ret))
                     ELSE callback(Result("TrombiDict"))
            ELSE callback_ret(_error_response(response)))

\* urlquote(s, safe=''): None cannot be quoted.
urlquote(v) == IF v.type = "NoneType" THEN Raise("TypeError") ELSE Nothing

DocIds == {PyNone, PyStr(<<"d">>), PyStr(<<"e">>)}

\* Database.set(doc, callback), Database.set(doc_id, doc, callback) and
\* either with attachments={'n': (None, data)}, doc being the caller's
\* Document (a dict is made a Document first, as those of WireData).  The
\* attachments are put on the document before the request is made.
Database_set ==
    /\ pending = {}
    /\ \E arg \in DocIds, attachments \in BOOLEAN :
          LET doc_id == IF arg = PyNone /\ doc.id # PyNone /\ doc.rev # PyNone
                        THEN doc.id ELSE arg
              d == IF attachments
                   THEN [doc EXCEPT !.attachments = setitem(@, "n", inline_attachment)]
                   ELSE doc
          IN  /\ Begin([Call("Database.set") EXCEPT
                            !.doc = doc, !.doc_id = doc_id, !.body = Document_raw(d)],
                       _fetch("Database.set"))
              /\ doc' = d
              /\ entity' = NoEntity
              /\ UNCHANGED <<paginator, python>>

\* content is the decoded body, the raw body when it does not decode, and
\* unbound when there is no body.  doc.id is assigned before content['rev']
\* is read.
Database_set__really_callback ==
    /\ "Database.set" \in pending
    /\ \E response \in Responses :
          LET loaded == loads_body(response.body)
              content == IF response.body.type = "NoneType" THEN Throw("UnboundLocalError")
                         ELSE IF IsValueError(loaded.exc) THEN Return(response.body)
                         ELSE loaded
              id == subscript(content.ret, "id")
              rev == subscript(content.ret, "rev")
          IN  IF response.code # 201
              THEN Receive("Database.set", response, callback_ret(_error_response(response)))
              ELSE IF content.exc # ""
              THEN Receive("Database.set", response, Raise(content.exc))
              ELSE IF id.exc # ""
              THEN Receive("Database.set", response, Raise(id.exc))
              ELSE IF rev.exc # ""
              THEN /\ Answer("Database.set", response, Raise(rev.exc))
                   /\ doc' = [doc EXCEPT !.id = id.ret]
                   /\ UNCHANGED <<entity, paginator, python>>
              ELSE /\ Answer("Database.set", response, callback(Result("Document")))
                   /\ doc' = [doc EXCEPT !.id = id.ret, !.rev = rev.ret]
                   /\ entity' = [kind |-> "Document", doc |-> doc']
                   /\ UNCHANGED <<paginator, python>>

Database_get ==
    /\ pending = {}
    /\ Start(Call("Database.get"), _fetch("Database.get"))

\* A variant of Database.get's callback that reports 404 as any other error.
Database_get__really_callback_404 ==
    /\ "Database.get" \in pending
    /\ \E response \in Responses :
        Receive("Database.get", response,
            IF response.code = 200
            THEN LET data == loads_body(response.body)
                 IN  IF data.exc # "" THEN Raise(data.exc)
                     ELSE IF data.ret.type # "dict" THEN Raise("AttributeError")
                     ELSE callback(Result("Document"))
            ELSE callback_ret(_error_response(response)))

\* Document(self, data) reads data.items(): only a dict has it.
Database_get__really_callback ==
    /\ "Database.get" \in pending
    /\ \E response \in Responses :
        Receive("Database.get", response,
            IF response.code = 200
            THEN LET data == loads_body(response.body)
                 IN  IF data.exc # "" THEN Raise(data.exc)
                     ELSE IF data.ret.type # "dict" THEN Raise("AttributeError")
                     ELSE callback(Result("Document"))
            ELSE IF response.code = 404 THEN callback(Result("None"))
            ELSE callback_ret(_error_response(response)))

Database_get_attachment ==
    /\ pending = {}
    /\ Start(Call("Database.get_attachment"), _fetch("Database.get_attachment"))

Database_get_attachment__really_callback ==
    /\ "Database.get_attachment" \in pending
    /\ \E response \in Responses :
        Receive("Database.get_attachment", response,
            IF response.code = 200 THEN callback(Result("bytes"))
            ELSE IF response.code = 404 THEN callback(Result("None"))
            ELSE callback_ret(_error_response(response)))

\* ViewResult(result): result.get exists on a dict only, and result['rows']
\* is read whether or not total_rows is there.
ViewResult(content) ==
    IF content.exc # "" THEN Raise(content.exc)
    ELSE IF content.ret.type # "dict" THEN Raise("AttributeError")
    ELSE IF subscript(content.ret, "rows").exc # "" THEN Raise("KeyError")
    ELSE callback(Result("ViewResult"))

Database_view ==
    /\ pending = {}
    /\ Start(Call("Database.view"), _fetch("Database.view"))

Database_view__really_callback ==
    /\ "Database.view" \in pending
    /\ \E response \in Responses :
        Receive("Database.view", response,
            IF response.code = 200 THEN ViewResult(loads_body(response.body))
            ELSE callback_ret(_error_response(response)))

Database_list ==
    /\ pending = {}
    /\ Start(Call("Database.list"), _fetch("Database.list"))

Database_list__really_callback ==
    /\ "Database.list" \in pending
    /\ \E response \in Responses :
        Receive("Database.list", response,
            IF response.code = 200 THEN callback(Result("TrombiResult"))
            ELSE callback_ret(_error_response(response)))

Database_temporary_view ==
    /\ pending = {}
    /\ Start(Call("Database.temporary_view"), _fetch("Database.temporary_view"))

Database_temporary_view__really_callback ==
    /\ "Database.temporary_view" \in pending
    /\ \E response \in Responses :
        Receive("Database.temporary_view", response,
            IF response.code = 200 THEN ViewResult(loads_body(response.body))
            ELSE callback_ret(_error_response(response)))

\* Database.delete(doc, callback), doc being the caller's Document
Database_delete ==
    /\ pending = {}
    /\ Start([Call("Database.delete") EXCEPT !.doc = doc],
             Then(urlquote(doc.id), _fetch("Database.delete")))

Database_delete__really_callback ==
    /\ "Database.delete" \in pending
    /\ \E response \in Responses :
        Receive("Database.delete", response,
            LET loaded == loads_body(response.body)
            IN  IF IsValueError(loaded.exc) THEN callback_ret(_error_response(response))
                ELSE IF loaded.exc # "" THEN Raise(loaded.exc)
                ELSE IF response.code = 200 THEN callback(Result("Database"))
                ELSE callback_ret(_error_response(response)))

\* iter(v): the elements of a list, the keys of a dict, the characters of
\* a str; nothing else of the model is iterable.
dict_iter(v) ==
    CASE v.text \in {J_idrev, J_idrev2} -> <<"id", "rev">>
      [] v.text = J_conflict -> <<"error", "reason">>
      [] v.text = J_empty -> <<>>
      [] OTHER -> <<CHOOSE key \in dict_keys(v) : TRUE>>

iter(v) ==
    CASE v.type = "list" -> Return(list_items(v))
      [] v.type = "dict" -> Return([i \in 1..Len(dict_iter(v)) |-> PyStr(chars[dict_iter(v)[i]])])
      [] v.type = "str" -> Return([i \in 1..Len(v.text) |-> PyStr(<<v.text[i]>>)])
      [] OTHER -> Throw("TypeError")

\* 'error' in line: a key of a dict, a part of a str
contains(line, key) ==
    CASE line.type = "dict" -> Return(key \in dict_keys(line))
      [] line.type = "str" ->
            Return(\E i \in 1..(Len(line.text) - Len(chars[key]) + 1) :
                       SubSeq(line.text, i, i + Len(chars[key]) - 1) = chars[key])
      [] line.type = "list" -> Return(FALSE)
      [] OTHER -> Throw("TypeError")

\* BulkError(data): data['error'], then data.get('reason', None)
BulkError(data) ==
    IF subscript(data, "error").exc # "" THEN Throw(subscript(data, "error").exc)
    ELSE Return([kind |-> "BulkError",
                 error_type |-> subscript(data, "error").ret,
                 reason |-> IF "reason" \in dict_keys(data)
                            THEN dict_item(data, "reason") ELSE PyNone,
                 raw |-> data])

BulkObject(data) == Return([kind |-> "BulkObject", data |-> data])

\* The loop of BulkResult.__init__ over the lines of the result.
RECURSIVE BulkResult_lines(_)
BulkResult_lines(lines) ==
    IF lines = <<>> THEN Return(<<>>)
    ELSE LET line == Head(lines)
             entry == IF contains(line, "error").ret THEN BulkError(line) ELSE BulkObject(line)
             rest == BulkResult_lines(Tail(lines))
         IN  IF contains(line, "error").exc # "" THEN Throw(contains(line, "error").exc)
             ELSE IF entry.exc # "" THEN Throw(entry.exc)
             ELSE IF rest.exc # "" THEN Throw(rest.exc)
             ELSE Return(<<entry.ret>> \o rest.ret)

\* A variant of BulkResult that stops at the first line with an error.
RECURSIVE BulkResult_until_error(_)
BulkResult_until_error(result) ==
    IF iter(result).exc # "" THEN Throw(iter(result).exc)
    ELSE LET lines == iter(result).ret
             first == IF \E i \in 1..Len(lines) : contains(lines[i], "error").ret = TRUE
                      THEN CHOOSE i \in 1..Len(lines) :
                               /\ contains(lines[i], "error").ret = TRUE
                               /\ \A j \in 1..(i - 1) : contains(lines[j], "error").ret = FALSE
                      ELSE Len(lines)
         IN  BulkResult_lines(SubSeq(lines, 1, first))

\* BulkResult(result): the content it holds, or the exception it raises
BulkResult(result) ==
    IF iter(result).exc # "" THEN Throw(iter(result).exc)
    ELSE BulkResult_lines(iter(result).ret)

BulkResponses == {[code |-> 201, body |-> PyBytes(encode(t))] : t \in BulkTexts}

\* Database.bulk_docs(data, callback) with a batch of call.batch documents
Database_bulk_docs ==
    /\ pending = {}
    /\ \E n \in 0..MaxBatch :
        Start([Call("Database.bulk_docs") EXCEPT !.batch = n], _fetch("Database.bulk_docs"))

\* A variant of Database.bulk_docs' callback without the except ValueError.
Database_bulk_docs__really_callback_no_except ==
    /\ "Database.bulk_docs" \in pending
    /\ \E response \in Responses \cup BulkResponses :
          LET content == loads_body(response.body)
              result == BulkResult(content.ret)
          IN  IF response.code # 200 /\ response.code # 201
              THEN Receive("Database.bulk_docs", response,
                           callback_ret(_error_response(response)))
              ELSE IF content.exc # ""
              THEN Receive("Database.bulk_docs", response, Raise(content.exc))
              ELSE IF result.exc # ""
              THEN Receive("Database.bulk_docs", response, Raise(result.exc))
              ELSE /\ Answer("Database.bulk_docs", response, callback(Result("BulkResult")))
                   /\ entity' = [kind |-> "BulkResult", content |-> result.ret]
                   /\ UNCHANGED <<doc, paginator, python>>

Database_bulk_docs__really_callback ==
    /\ "Database.bulk_docs" \in pending
    /\ \E response \in Responses \cup BulkResponses :
          LET content == loads_body(response.body)
              result == BulkResult(content.ret)
          IN  IF response.code # 200 /\ response.code # 201
              THEN Receive("Database.bulk_docs", response,
                           callback_ret(_error_response(response)))
              ELSE IF IsValueError(content.exc)
              THEN Receive("Database.bulk_docs", response,
                           callback(TrombiErrorResponse(response.code, response.body)))
              ELSE IF content.exc # ""
              THEN Receive("Database.bulk_docs", response, Raise(content.exc))
              ELSE IF result.exc # ""
              THEN Receive("Database.bulk_docs", response, Raise(result.exc))
              ELSE /\ Answer("Database.bulk_docs", response, callback(Result("BulkResult")))
                   /\ entity' = [kind |-> "BulkResult", content |-> result.ret]
                   /\ UNCHANGED <<doc, paginator, python>>

\* Database.changes._really_callback, for the feed mode of the call.
changes__really_callback(response, feed) ==
    IF response.code # 200 THEN callback_ret(_error_response(response))
    ELSE IF feed = "continuous" THEN callback(Result("None"))
    ELSE LET content == loads_body(response.body)
         IN  IF content.exc # "" THEN Raise(content.exc)
             ELSE callback(Result("TrombiResult"))

Database_changes ==
    /\ pending = {}
    /\ \E feed \in {"normal", "longpoll", "continuous"} :
        Start([Call("Database.changes") EXCEPT !.feed = feed], _fetch("Database.changes"))

Database_changes__really_callback ==
    /\ "Database.changes" \in pending
    /\ \E response \in Responses :
        Receive("Database.changes", response,
                changes__really_callback(response, call.feed))

(***************************************************************************)
(* Document: the operations of the caller's Document                       *)
(***************************************************************************)
\* assert self.rev and self.id
Document_copy ==
    /\ pending = {}
    /\ LET persisted == truthy(doc.rev) /\ truthy(doc.id)
       IN  Start([Call("Document.copy") EXCEPT !.persisted = persisted, !.doc = doc],
                 IF ~persisted THEN Raise("AssertionError") ELSE _fetch("Document.copy"))

\* The new Document is made of self.data by Document(self.db, self.data),
\* given a copy of the attachments, and then the id and rev of the response.
Document_copy___copy_done ==
    /\ "Document.copy" \in pending
    /\ \E response \in Responses :
          LET content == loads_body(response.body)
              id == subscript(content.ret, "id")
              rev == subscript(content.ret, "rev")
          IN  IF response.code # 201
              THEN Receive("Document.copy", response, callback_ret(_error_response(response)))
              ELSE IF content.exc # ""
              THEN Receive("Document.copy", response, Raise(content.exc))
              ELSE IF id.exc # ""
              THEN Receive("Document.copy", response, Raise(id.exc))
              ELSE IF rev.exc # ""
              THEN Receive("Document.copy", response, Raise(rev.exc))
              ELSE /\ Answer("Document.copy", response, callback(Result("Document")))
                   /\ entity' = [kind |-> "Document",
                                 doc |-> [Document(doc.data) EXCEPT
                                             !.attachments = doc.attachments,
                                             !.id = id.ret, !.rev = rev.ret]]
                   /\ UNCHANGED <<doc, paginator, python>>

\* Document.attach('n', data, callback)
Document_attach ==
    /\ pending = {}
    /\ Start([Call("Document.attach") EXCEPT !.doc = doc],
             Then(urlquote(doc.id), _fetch("Document.attach")))

\* A variant of Document.attach's callback that sends the attachment again
\* when the store answers with a conflict.
Document_attach__really_callback_retry ==
    /\ "Document.attach" \in pending
    /\ \E response \in Responses :
          LET data == loads_body(response.body)
              id == subscript(data.ret, "id")
              rev == subscript(data.ret, "rev")
          IN  IF response.code = 409
              THEN Receive("Document.attach", response, _fetch("Document.attach"))
              ELSE IF response.code # 201
              THEN Receive("Document.attach", response, callback_ret(_error_response(response)))
              ELSE IF data.exc # "" \/ id.exc # "" \/ rev.exc # "" \/ id.ret # doc.id
              THEN Receive("Document.attach", response, Raise("Exception"))
              ELSE /\ Answer("Document.attach", response, callback(Result("Document")))
                   /\ doc' = [doc EXCEPT
                                 !.rev = rev.ret,
                                 !.attachments =
                                     setitem(@, "n",
                                         stub_attachment(Cardinality(dict_keys(data.ret))))]
                   /\ entity' = [kind |-> "Document", doc |-> doc']
                   /\ UNCHANGED <<paginator, python>>

\* data is rebound to the decoded response, so 'length' is the number of its
\* keys.
Document_attach__really_callback ==
    /\ "Document.attach" \in pending
    /\ \E response \in Responses :
          LET data == loads_body(response.body)
              id == subscript(data.ret, "id")
              rev == subscript(data.ret, "rev")
          IN  IF response.code # 201
              THEN Receive("Document.attach", response, callback_ret(_error_response(response)))
              ELSE IF data.exc # ""
              THEN Receive("Document.attach", response, Raise(data.exc))
              ELSE IF id.exc # ""
              THEN Receive("Document.attach", response, Raise(id.exc))
              ELSE IF id.ret # doc.id
              THEN Receive("Document.attach", response, Raise("AssertionError"))
              ELSE IF rev.exc # ""
              THEN Receive("Document.attach", response, Raise(rev.exc))
              ELSE /\ Answer("Document.attach", response, callback(Result("Document")))
                   /\ doc' = [doc EXCEPT
                                 !.rev = rev.ret,
                                 !.attachments =
                                     setitem(@, "n",
                                         stub_attachment(Cardinality(dict_keys(data.ret))))]
                   /\ entity' = [kind |-> "Document", doc |-> doc']
                   /\ UNCHANGED <<paginator, python>>

\* self.attachments[name].get('stub', False)
is_stub(attachment) == "stub" \in DOMAIN attachment /\ attachment.stub

\* Document.load_attachment('n', callback): the data comes from the document
\* when the attachment is there with its data, not as a stub.
Document_load_attachment ==
    /\ pending = {}
    /\ LET inline == /\ has_key(doc.attachments, "n")
                     /\ ~is_stub(getitem(doc.attachments, "n"))
       IN  Start([Call("Document.load_attachment") EXCEPT !.inline = inline, !.doc = doc],
                 IF inline THEN callback(Result("bytes"))
                 ELSE Then(urlquote(doc.id), _fetch("Document.load_attachment")))

Document_load_attachment__really_callback ==
    /\ "Document.load_attachment" \in pending
    /\ \E response \in Responses :
        Receive("Document.load_attachment", response,
            IF response.code = 200 THEN callback(Result("bytes"))
            ELSE callback_ret(_error_response(response)))

Document_delete_attachment ==
    /\ pending = {}
    /\ Start([Call("Document.delete_attachment") EXCEPT !.doc = doc],
             _fetch("Document.delete_attachment"))

Document_delete_attachment__really_callback ==
    /\ "Document.delete_attachment" \in pending
    /\ \E response \in Responses :
        Receive("Document.delete_attachment", response,
            IF response.code # 200 THEN callback_ret(_error_response(response))
            ELSE callback(Result("Document")))

\* doc[key] = value and del doc[key], by the caller
Document_setitem ==
    /\ pending = {}
    /\ \E key \in {"b", "_x", "_id"}, value \in {PyStr(<<"s">>)} :
          LET o == Document___setitem__(doc, key, value)
          IN  /\ Begin([Call("Document.__setitem__") EXCEPT !.doc = doc, !.key = key],
                       Raise(o.exc))
              /\ doc' = o.self
              /\ entity' = NoEntity
              /\ UNCHANGED <<paginator, python>>

Document_delitem ==
    /\ pending = {}
    /\ \E key \in {"a", "_x"} :
          LET o == Document___delitem__(doc, key)
          IN  /\ Begin([Call("Document.__delitem__") EXCEPT !.doc = doc, !.key = key],
                       Raise(o.exc))
              /\ doc' = o.self
              /\ entity' = NoEntity
              /\ UNCHANGED <<paginator, python>>

(***************************************************************************)
(* ViewResult                                                              *)
(***************************************************************************)
MaxReads == 2

\* A Document as a value: the object and its fields.
PyDocument(self) == [type |-> "Document", self |-> self]

\* data.items() for the data Document.__init__ is given: the items of a
\* dict, the fields of a Document (the items of a MutableMapping are those
\* of its __iter__ and __getitem__).
data_items(data) == IF data.type = "Document" THEN data.self.data ELSE data.items

\* ViewResult._format_row(row): the row itself, its 'doc' replaced
_format_row(row) ==
    IF has_key(row, "doc") /\ truthy(getitem(row, "doc"))
    THEN setitem(row, "doc", PyDocument(Document(data_items(getitem(row, "doc")))))
    ELSE row

\* The rows of a view response: without a document (no include_docs), with
\* null for a document (a row of a key that matched nothing), with a
\* document that has fields and with one that has none.
WireRows ==
    {<< <<"value", PyInt>> >>,
     << <<"value", PyInt>>, <<"doc", PyNone>> >>,
     << <<"value", PyInt>>,
        <<"doc", PyDict(<< <<"_id", PyStr(<<"d">>)>>, <<"_rev", PyStr(<<"1">>)>> >>)>> >>,
     << <<"value", PyInt>>,
        <<"doc", PyDict(<< <<"_id", PyStr(<<"e">>)>>, <<"_rev", PyStr(<<"2">>)>>,
                           <<"a", PyInt>> >>)>> >>}

\* ViewResult(result, db): _rows is result['rows']; wire keeps the rows as
\* they were received and reads counts the reads of each row, up to
\* MaxReads.
ViewResult_of(rows) ==
    [kind |-> "ViewResult", rows |-> rows, wire |-> rows,
     reads |-> [i \in 1..Len(rows) |-> 0]]

read(self, key) ==
    [self EXCEPT !.rows[key] = _format_row(@),
                 !.reads[key] = IF @ < MaxReads THEN @ + 1 ELSE @]

RECURSIVE read_all(_, _)
read_all(self, n) == IF n = 0 THEN self ELSE read(read_all(self, n - 1), n)

\* ViewResult.__getitem__(key), by the caller
ViewResult___getitem__ ==
    /\ pending = {}
    /\ \E key \in 1..Len(entity.rows) :
          /\ Begin([Call("ViewResult.__getitem__") EXCEPT !.batch = key], Nothing)
          /\ entity' = read(entity, key)
          /\ UNCHANGED <<doc, paginator, python>>

\* ViewResult.__iter__, by the caller: a loop over the rows, left after any
\* number of them.
ViewResult___iter__ ==
    /\ pending = {}
    /\ \E n \in 0..Len(entity.rows) :
          /\ Begin([Call("ViewResult.__iter__") EXCEPT !.batch = n], Nothing)
          /\ entity' = read_all(entity, n)
          /\ UNCHANGED <<doc, paginator, python>>

(***************************************************************************)
(* Paginator                                                               *)
(***************************************************************************)
\* A number a / b gave: Python 2 floors the quotient of two ints, Python 3
\* gives the exact quotient as a float, kept here as its floor and the
\* remainder over b.
Whole(n) == [floor |-> n, rem |-> 0]

div(version, a, b) ==
    IF version = 2 THEN Whole(a \div b) ELSE [floor |-> a \div b, rem |-> a % b]

plus(x, n) == [x EXCEPT !.floor = @ + n]

PyList(items) == [type |-> "list", items |-> items]

\* Paginator(db, limit)
Paginator(limit) ==
    [limit |-> limit, error |-> Result("False"), response |-> Result("None"),
     count |-> 0, start_index |-> 0, end_index |-> 0,
     num_pages |-> Whole(0), current_page |-> Whole(0),
     previous_page |-> Whole(0), next_page |-> Whole(0),
     rows |-> PyNone, has_next |-> FALSE, has_previous |-> FALSE,
     page_range |-> PyNone, start_doc_id |-> PyNone, end_doc_id |-> PyNone]

\* What Database.view hands the callback it was given: a ViewResult with the
\* total_rows, the offset and the rows' values of up to MaxRows rows of the
\* view, or the error object of a response that was not 200.  The rows of a
\* response are rows of the view from the offset on, so there are at most
\* total_rows - offset of them.
MaxRows == 3
MaxLimit == 2

\* The values of the rows of a page: documents with their '_id', a value
\* without one, a number.
Row_d == PyDict(<< <<"_id", PyStr(<<"d">>)>> >>)
Row_e == PyDict(<< <<"_id", PyStr(<<"e">>)>> >>)
Row_a == PyDict(<< <<"a", PyInt>> >>)

ViewRows ==
    {<<>>, <<Row_d>>, <<Row_a>>, <<PyInt>>,
     <<Row_d, Row_e>>, <<Row_d, Row_a>>, <<Row_a, Row_d>>}

ViewResults ==
    UNION {UNION {{[kind |-> "ViewResult", error |-> FALSE,
                    total_rows |-> t, offset |-> o, rows |-> rows] :
                       rows \in {r \in ViewRows : Len(r) <= t - o}} :
                  o \in 0..t} :
           t \in 0..MaxRows}

ViewErrors == {_error_response([code |-> 404, body |-> PyBytes(encode(J_reason))]).ret}

\* rows[i]['_id'] for the value of a row
row_id(value) ==
    IF value.type # "dict" THEN Throw("TypeError")
    ELSE IF ~has_key(value.items, "_id") THEN Throw("KeyError")
    ELSE Return(getitem(value.items, "_id"))

reverse(list) == [i \in 1..Len(list) |-> list[Len(list) + 1 - i]]

\* The keyword arguments get_page gives Database.view (no **kw given).
get_page_kwargs(limit, key, doc_id, forward) ==
    LET kwargs == << <<"limit", Whole(limit)>>, <<"descending", Result("True")>>,
                     <<"startkey", key>> >>
    IN  IF truthy(key) /\ forward /\ truthy(doc_id)
        THEN setitem(kwargs, "start_doc_id", doc_id)
        ELSE IF truthy(key) /\ ~forward
        THEN setitem(setitem(setitem(kwargs, "start_doc_id",
                                     IF truthy(doc_id) THEN doc_id ELSE PyStr(<<>>)),
                             "descending", Result("False")),
                     "skip", Whole(1))
        ELSE kwargs

\* Paginator.get_page(design_doc, viewname, callback, key, doc_id, forward)
Paginator_get_page ==
    /\ pending = {}
    /\ \E seed \in {<<PyNone, PyNone>>, <<PyStr(<<"k">>), PyStr(<<"d">>)>>},
          forward \in BOOLEAN :
        Start([Call("Paginator.get_page") EXCEPT
                  !.forward = forward,
                  !.kwargs = get_page_kwargs(paginator.limit, seed[1], seed[2], forward)],
              _fetch("Paginator.get_page"))

\* A variant of the page arithmetic that counts the pages without the + 1.
Paginator_pages_no_increment(version, self, response, forward) ==
    LET offset == IF forward THEN response.offset
                  ELSE response.total_rows - response.offset - self.limit
        num_pages == div(version, response.total_rows, self.limit)
        current_page == plus(div(version, offset, self.limit), 1)
    IN  [self EXCEPT
            !.response = response,
            !.count = response.total_rows,
            !.start_index = offset,
            !.end_index = response.offset + self.limit - 1,
            !.num_pages = num_pages,
            !.current_page = current_page,
            !.previous_page = plus(current_page, -1),
            !.next_page = plus(current_page, 1),
            !.rows = PyList(IF forward THEN response.rows ELSE reverse(response.rows)),
            !.has_next = (offset + self.limit) < response.total_rows,
            !.has_previous = (offset - self.limit) >= 0]

\* Lines 837-854 of the callback: the fields it sets up to has_previous.
Paginator_pages(version, self, response, forward) ==
    LET offset == IF forward THEN response.offset
                  ELSE response.total_rows - response.offset - self.limit
        num_pages == plus(div(version, response.total_rows, self.limit), 1)
        current_page == plus(div(version, offset, self.limit), 1)
    IN  [self EXCEPT
            !.response = response,
            !.count = response.total_rows,
            !.start_index = offset,
            !.end_index = response.offset + self.limit - 1,
            !.num_pages = num_pages,
            !.current_page = current_page,
            !.previous_page = plus(current_page, -1),
            !.next_page = plus(current_page, 1),
            !.rows = PyList(IF forward THEN response.rows ELSE reverse(response.rows)),
            !.has_next = (offset + self.limit) < response.total_rows,
            !.has_previous = (offset - self.limit) >= 0]

\* A variant of lines 856-862 whose except branch leaves the ids as they
\* were.
Paginator_doc_ids_pass(self) ==
    LET rows == self.rows.items
        first == row_id(rows[1])
        last == row_id(rows[Len(rows)])
    IN  IF rows = <<>> THEN Return(self)
        ELSE IF first.exc = "TypeError" THEN Throw("TypeError")
        ELSE IF first.exc = "KeyError" THEN Return(self)
        ELSE IF last.exc = "TypeError" THEN Throw("TypeError")
        ELSE IF last.exc = "KeyError" THEN Return([self EXCEPT !.start_doc_id = first.ret])
        ELSE Return([self EXCEPT !.start_doc_id = first.ret, !.end_doc_id = last.ret])

\* Lines 856-862: the ids of the first and the last row, None for both when
\* there is no row or one of the two has no '_id'.
Paginator_doc_ids(self) ==
    LET rows == self.rows.items
        first == row_id(rows[1])
        last == row_id(rows[Len(rows)])
    IN  IF rows = <<>> THEN Return([self EXCEPT !.start_doc_id = PyNone, !.end_doc_id = PyNone])
        ELSE IF first.exc = "TypeError" THEN Throw("TypeError")
        ELSE IF first.exc = "KeyError"
        THEN Return([self EXCEPT !.start_doc_id = PyNone, !.end_doc_id = PyNone])
        ELSE IF last.exc = "TypeError"
        THEN Throw("TypeError")
        ELSE IF last.exc = "KeyError"
        THEN Return([self EXCEPT !.start_doc_id = PyNone, !.end_doc_id = PyNone])
        ELSE Return([self EXCEPT !.start_doc_id = first.ret, !.end_doc_id = last.ret])

\* Paginator.get_page._really_callback, called by Database.view's callback
\* with the ViewResult or the error object: the Paginator it leaves and what
\* it does with the handler.  A limit of 0 divides by zero; Python 3 has no
\* xrange.
Paginator_get_page__really_callback_body(version, self, response, forward) ==
    LET pages == Paginator_pages(version, self, response, forward)
        ranged == [pages EXCEPT
                      !.page_range = PyList([p \in 1..pages.num_pages.floor |-> Whole(p)])]
        done == Paginator_doc_ids(ranged)
    IN  IF response.kind # "ViewResult"
        THEN [self |-> [self EXCEPT !.error = response],
              o |-> callback(Result("Paginator"))]
        ELSE IF self.limit = 0
        THEN [self |-> [self EXCEPT
                           !.response = response,
                           !.count = response.total_rows,
                           !.start_index =
                               IF forward THEN response.offset
                               ELSE response.total_rows - response.offset,
                           !.end_index = response.offset - 1],
              o |-> Raise("ZeroDivisionError")]
        ELSE IF version = 3
        THEN [self |-> pages, o |-> Raise("NameError")]
        ELSE IF done.exc # ""
        THEN [self |-> ranged, o |-> Raise(done.exc)]
        ELSE [self |-> done.ret, o |-> callback(Result("Paginator"))]

\* The callback called with any ViewResult or error object.
Paginator_get_page__really_callback ==
    /\ "Paginator.get_page" \in pending
    /\ \E response \in ViewResults \cup ViewErrors :
          LET answer == [code |-> IF response.kind = "ViewResult" THEN 200 ELSE response.errno,
                         body |-> PyNone]
              run == Paginator_get_page__really_callback_body(python, paginator, response,
                                                              call.forward)
          IN  /\ Answer("Paginator.get_page", answer, run.o)
              /\ paginator' = run.self
              /\ UNCHANGED <<doc, entity, python>>

(***************************************************************************)
(* A Paginator walking a view of the store                                 *)
(***************************************************************************)
\* The store's side of GET _design/<d>/_view/<v>?limit=..&descending=..&
\* startkey=..[&start_doc_id=..][&skip=1], the query get_page makes
\* Database.view send.  The view maps each document to a row with the
\* document's id as the key and the document as the value, so keys are
\* unique and the document id of the query selects nothing the key does not.
MaxView == 4
MaxSeen == 3

Digits == <<"1", "2", "3", "4", "5", "6", "7", "8", "9">>

ViewKeys == {Digits[i] : i \in 1..MaxView}

rank(key) == CHOOSE i \in 1..Len(Digits) : Digits[i] = key

min(a, b) == IF a < b THEN a ELSE b

\* The value of the row of the document with this id.
Row(key) == PyDict(<< <<"_id", PyStr(<<key>>)>> >>)

\* The rows the store answers with: the rows of the view in the direction
\* asked for, from the first row at or after startkey, without the first
\* skip of them, limit at most.  The offset it reports counts the rows
\* before the start key, with or without the rows skipped.
Store_view(rows, kwargs) ==
    LET descending == getitem(kwargs, "descending") = Result("True")
        startkey == getitem(kwargs, "startkey").text[1]
        skip == IF has_key(kwargs, "skip") THEN getitem(kwargs, "skip").floor ELSE 0
        limit == getitem(kwargs, "limit").floor
        order == IF descending THEN reverse(rows) ELSE rows
        before(key) == IF descending THEN rank(key) > rank(startkey)
                       ELSE rank(key) < rank(startkey)
        start == Cardinality({i \in 1..Len(order) : before(order[i])})
        first == min(start + skip, Len(order))
        last == min(first + limit, Len(order))
    IN  {[kind |-> "ViewResult", error |-> FALSE,
          total_rows |-> Len(order), offset |-> offset,
          rows |-> [i \in 1..(last - first) |-> Row(order[first + i])]] :
            offset \in {start, first}}

\* What the caller passes get_page (lines 823-827): to open the walk a key
\* of its choice, to go forward the last document of the page it has, to go
\* backward the first document of that page.  It goes forward when the
\* Paginator says has_next and backward when it says has_previous.
get_page(step, key, forward) ==
    Start([Call("Paginator.get_page") EXCEPT
              !.step = step,
              !.forward = forward,
              !.kwargs = get_page_kwargs(paginator.limit, key, key, forward)],
          _fetch("Paginator.get_page"))

Paginator_get_page_first ==
    /\ pending = {}
    /\ \E key \in ViewKeys : get_page("first", PyStr(<<key>>), TRUE)

Paginator_get_page_next ==
    /\ pending = {}
    /\ seen # <<>>
    /\ paginator.has_next
    /\ truthy(paginator.end_doc_id)
    /\ get_page("next", paginator.end_doc_id, TRUE)

Paginator_get_page_previous ==
    /\ pending = {}
    /\ seen # <<>>
    /\ paginator.has_previous
    /\ truthy(paginator.start_doc_id)
    /\ get_page("previous", paginator.start_doc_id, FALSE)

\* The pages the handler was given, the last MaxSeen of them.
last_seen(pages) == IF Len(pages) > MaxSeen THEN Tail(pages) ELSE pages

\* The callback called with the store's answer to the query of the call.
Paginator_get_page__really_callback_view ==
    /\ "Paginator.get_page" \in pending
    /\ \E response \in Store_view(view, call.kwargs) :
          LET answer == [code |-> 200, body |-> PyNone]
              run == Paginator_get_page__really_callback_body(python, paginator, response,
                                                              call.forward)
          IN  /\ Reply("Paginator.get_page", answer, run.o)
              /\ paginator' = run.self
              /\ seen' = IF run.o.deliver = <<>> THEN seen
                         ELSE last_seen(Append(seen, [step |-> call.step,
                                                      rows |-> run.self.rows.items]))
              /\ UNCHANGED <<doc, entity, python, view>>

(***************************************************************************)
(* The continuous changes feed (Database.changes, feed='continuous')       *)
(***************************************************************************)
NumRequests == 2
MaxLines == 2

Requests == 1..NumRequests

\* The lines a feed is made of: change events, a heartbeat (an empty line),
\* a blank line, a cut document, a JSON document that is no object, and a
\* byte that is not UTF-8.
J_cut == <<"{", "\"", "a", "\"">>

FeedLines ==
    {encode(J_empty), encode(J_a), encode(J_e9), <<>>, <<" ">>,
     encode(J_cut), encode(J_int), <<"A9">>}

RECURSIVE join(_)
join(list) == IF list = <<>> THEN <<>> ELSE Head(list) \o join(Tail(list))

\* The feeds of the model: up to MaxLines lines, each ended by a newline,
\* the last one possibly not yet.
Feed(lines, ended) ==
    LET all == join([i \in 1..Len(lines) |-> lines[i] \o <<"\n">>])
    IN  IF ended \/ all = <<>> THEN all ELSE SubSeq(all, 1, Len(all) - 1)

Feeds ==
    {Feed(lines, ended) :
        lines \in UNION {[1..n -> FeedLines] : n \in 0..MaxLines},
        ended \in BOOLEAN}

\* str.split(sep): the pieces between the separators, at least one.
RECURSIVE split(_, _)
split(s, sep) ==
    IF \A i \in 1..Len(s) : s[i] # sep THEN <<s>>
    ELSE LET k == CHOOSE i \in 1..Len(s) : s[i] = sep /\ \A j \in 1..(i - 1) : s[j] # sep
         IN  <<SubSeq(s, 1, k - 1)>> \o split(SubSeq(s, k + 1, Len(s)), sep)

\* TrombiDict(obj) is dict(obj): an empty list or str gives an empty dict.
TrombiDict(obj) ==
    [kind |-> "TrombiDict", errno |-> 0,
     msg |-> IF obj.type = "dict" THEN obj ELSE [type |-> "dict", text |-> J_empty]]

\* The loop of _stream over the completed lines: the handler calls to add
\* to the io_loop, and the exception that ends the loop early.
RECURSIVE stream_lines(_)
stream_lines(chunks) ==
    IF chunks = <<>> THEN [events |-> <<>>, exc |-> ""]
    ELSE LET chunk == Head(chunks)
             obj == json_loads(chunk)
         IN  IF strip(chunk) = <<>> THEN stream_lines(Tail(chunks))
             ELSE IF ~obj.ok THEN stream_lines(Tail(chunks))
             ELSE IF dict_exc(obj.value) # ""
                  THEN [events |-> <<>>, exc |-> dict_exc(obj.value)]
             ELSE LET rest == stream_lines(Tail(chunks))
                  IN  [events |-> <<TrombiDict(obj.value)>> \o rest.events,
                       exc |-> rest.exc]

\* A variant of add_callback that runs the newest callback first.
add_callback_lifo(queue, cb) == <<cb>> \o queue

\* io_loop.add_callback: callbacks run in the order they were added.
add_callback(queue, cb) == Append(queue, cb)

RECURSIVE add_callbacks(_, _, _)
add_callbacks(queue, r, events) ==
    IF events = <<>> THEN queue
    ELSE add_callbacks(add_callback(queue, [req |-> r, arg |-> Head(events)]),
                       r, Tail(events))

\* A variant in which every call of changes appends to one list.
stream_buffer_shared(r) == 1

\* stream_buffer = [] in the body of changes: the _stream of a call captures
\* the list of that call.
stream_buffer_of(r) == r

\* The transport hands request r the next bytes of its feed, cut anywhere.
\* An exception that escapes _stream fails the request.
_stream(r) ==
    /\ state[r] = "open"
    /\ \E n \in 1..(Len(wire[r]) - pos[r]) :
          LET text == decode(SubSeq(wire[r], pos[r] + 1, pos[r] + n))
              chunks == split(join(Append(stream_buffer[stream_buffer_of(r)], text.text)),
                              "\n")
              done == stream_lines(SubSeq(chunks, 1, Len(chunks) - 1))
          IN  /\ pos' = [pos EXCEPT ![r] = pos[r] + n]
              /\ IF ~text.ok
                 THEN /\ state' = [state EXCEPT ![r] = "failed"]
                      /\ UNCHANGED <<stream_buffer, ioloop, scheduled>>
                 ELSE /\ stream_buffer' = [stream_buffer EXCEPT
                                                ![stream_buffer_of(r)] = <<chunks[Len(chunks)]>>]
                      /\ ioloop' = add_callbacks(ioloop, r, done.events)
                      /\ scheduled' = [scheduled EXCEPT ![r] = scheduled[r] \o done.events]
                      /\ state' = [state EXCEPT ![r] = IF done.exc # "" THEN "failed" ELSE "open"]
    /\ UNCHANGED <<wire, handler>>
    /\ UNCHANGED opVars
    /\ UNCHANGED objVars
    /\ UNCHANGED storeVars

\* The io_loop runs its oldest callback: the handler of that request is
\* called with the event.
ioloop_run ==
    /\ ioloop # <<>>
    /\ handler' = [handler EXCEPT ![Head(ioloop).req] = Append(@, Head(ioloop).arg)]
    /\ ioloop' = Tail(ioloop)
    /\ UNCHANGED <<wire, pos, stream_buffer, state, scheduled>>
    /\ UNCHANGED opVars
    /\ UNCHANGED objVars
    /\ UNCHANGED storeVars

\* The responses that end a streamed request: 200 or a store error once the
\* whole feed has been handed over (the body went to _stream, so the
\* response's own body is empty), a transport failure at any time and after
\* an exception in the streaming callback.
FinalResponses(r) ==
    {Unreachable} \cup
    IF state[r] = "open" /\ pos[r] = Len(wire[r])
    THEN {[code |-> c, body |-> PyBytes(<<>>)] : c \in {200, 500}}
    ELSE {}

\* The request completes: the transport calls _really_callback, which calls
\* the handler there and then.  Some transports call their completion
\* callback from the io_loop's queue instead.
changes_complete(r) ==
    /\ state[r] \in {"open", "failed"}
    /\ \E response \in FinalResponses(r), queued \in BOOLEAN :
          LET o == changes__really_callback(response, "continuous")
          IN  IF queued
              THEN /\ ioloop' = add_callbacks(ioloop, r, o.deliver)
                   /\ UNCHANGED handler
              ELSE /\ handler' = [handler EXCEPT ![r] = @ \o o.deliver]
                   /\ UNCHANGED ioloop
    /\ state' = [state EXCEPT ![r] = "done"]
    /\ UNCHANGED <<wire, pos, stream_buffer, scheduled>>
    /\ UNCHANGED opVars
    /\ UNCHANGED objVars
    /\ UNCHANGED storeVars

(***************************************************************************)
(* Specifications                                                          *)
(***************************************************************************)
InitOps ==
    /\ call = NoCall
    /\ pending = {}
    /\ results = <<>>
    /\ raised = ""
    /\ handled = NoResponse
    /\ fetches = 0

InitFeedIdle ==
    /\ wire = [r \in Requests |-> <<>>]
    /\ pos = [r \in Requests |-> 0]
    /\ stream_buffer = [r \in Requests |-> <<>>]
    /\ state = [r \in Requests |-> "unused"]
    /\ ioloop = <<>>
    /\ scheduled = [r \in Requests |-> <<>>]
    /\ handler = [r \in Requests |-> <<>>]

\* The Document the caller holds at the start: one the store has, as
\* Database.get makes it.
StoredDocument ==
    Document(<< <<"_id", PyStr(<<"d">>)>>, <<"_rev", PyStr(<<"1">>)>>, <<"a", PyInt>> >>)

InitPaginatorIdle ==
    /\ paginator = Paginator(10)
    /\ python = 2

InitStoreIdle ==
    /\ view = <<>>
    /\ seen = <<>>

InitObjects ==
    /\ InitStoreIdle
    /\ doc = StoredDocument
    /\ entity = NoEntity
    /\ InitPaginatorIdle

Init == InitOps /\ InitFeedIdle /\ InitObjects

Next ==
    \/ Server_create \/ Server_create__create_callback
    \/ Server_get \/ Server_get__really_callback
    \/ Server_delete \/ Server_delete__really_callback
    \/ Server_list \/ Server_list__really_callback
    \/ Database_info \/ Database_info__really_callback
    \/ Database_set \/ Database_set__really_callback
    \/ Database_get \/ Database_get__really_callback
    \/ Database_get_attachment \/ Database_get_attachment__really_callback
    \/ Database_view \/ Database_view__really_callback
    \/ Database_list \/ Database_list__really_callback
    \/ Database_temporary_view \/ Database_temporary_view__really_callback
    \/ Database_delete \/ Database_delete__really_callback
    \/ Database_bulk_docs \/ Database_bulk_docs__really_callback
    \/ Database_changes \/ Database_changes__really_callback
    \/ Document_copy \/ Document_copy___copy_done
    \/ Document_attach \/ Document_attach__really_callback
    \/ Document_load_attachment \/ Document_load_attachment__really_callback
    \/ Document_delete_attachment \/ Document_delete_attachment__really_callback

Spec == Init /\ [][Next]_vars

\* One continuous changes request, on any feed of the model.
InitChanges ==
    /\ InitOps
    /\ \E feed \in Feeds : wire = [r \in Requests |-> IF r = 1 THEN feed ELSE <<>>]
    /\ pos = [r \in Requests |-> 0]
    /\ stream_buffer = [r \in Requests |-> <<>>]
    /\ state = [r \in Requests |-> IF r = 1 THEN "open" ELSE "unused"]
    /\ ioloop = <<>>
    /\ scheduled = [r \in Requests |-> <<>>]
    /\ handler = [r \in Requests |-> <<>>]
    /\ InitObjects

NextChanges ==
    \/ \E r \in Requests : _stream(r)
    \/ ioloop_run
    \/ \E r \in Requests : changes_complete(r)

SpecChanges == InitChanges /\ [][NextChanges]_vars

\* Two continuous changes requests open at once, each on its own feed of
\* two lines, the last one ended or not: the transport hands either of them
\* its next bytes in any order.
ConcurrentFeeds ==
    {<<Feed(<<encode(J_a), encode(J_e9)>>, ended[1]),
       Feed(<<encode(J_empty), encode(J_a)>>, ended[2])>> : ended \in [1..2 -> BOOLEAN]}

InitConcurrent ==
    /\ InitOps
    /\ \E feeds \in ConcurrentFeeds :
          wire = [r \in Requests |-> IF r <= 2 THEN feeds[r] ELSE <<>>]
    /\ pos = [r \in Requests |-> 0]
    /\ stream_buffer = [r \in Requests |-> <<>>]
    /\ state = [r \in Requests |-> IF r <= 2 THEN "open" ELSE "unused"]
    /\ ioloop = <<>>
    /\ scheduled = [r \in Requests |-> <<>>]
    /\ handler = [r \in Requests |-> <<>>]
    /\ InitObjects

SpecConcurrent == InitConcurrent /\ [][NextChanges]_vars

\* The life of one Document: made from wire data, written to by the caller,
\* and taken through the operations that send it to the store.
InitDocument ==
    /\ InitOps
    /\ InitFeedIdle
    /\ InitStoreIdle
    /\ doc \in {Document(data) : data \in WireData}
    /\ entity = NoEntity
    /\ InitPaginatorIdle

NextDocument ==
    \/ Document_setitem \/ Document_delitem
    \/ Database_set \/ Database_set__really_callback
    \/ Database_delete \/ Database_delete__really_callback
    \/ Document_copy \/ Document_copy___copy_done
    \/ Document_attach \/ Document_attach__really_callback
    \/ Document_delete_attachment \/ Document_delete_attachment__really_callback

SpecDocument == InitDocument /\ [][NextDocument]_vars

\* One Paginator with a limit of up to MaxLimit, fetching page after page.
InitPaginator ==
    /\ InitOps
    /\ InitFeedIdle
    /\ doc = StoredDocument
    /\ entity = NoEntity
    /\ \E limit \in 0..MaxLimit : paginator = Paginator(limit)
    /\ python \in {2, 3}
    /\ InitStoreIdle

NextPaginator ==
    \/ Paginator_get_page
    \/ Paginator_get_page__really_callback

SpecPaginator == InitPaginator /\ [][NextPaginator]_vars

\* One ViewResult of up to MaxRows rows, read by its caller.
InitViewResult ==
    /\ InitOps
    /\ InitFeedIdle
    /\ InitStoreIdle
    /\ doc = StoredDocument
    /\ \E rows \in UNION {[1..n -> WireRows] : n \in 0..MaxRows} :
          entity = ViewResult_of(rows)
    /\ InitPaginatorIdle

NextViewResult ==
    \/ ViewResult___getitem__
    \/ ViewResult___iter__

SpecViewResult == InitViewResult /\ [][NextViewResult]_vars

\* One Paginator walking one view of up to MaxView documents: the caller
\* opens the walk at a key and goes forward and backward from the page it
\* has.
InitPaging ==
    /\ InitOps
    /\ InitFeedIdle
    /\ doc = StoredDocument
    /\ entity = NoEntity
    /\ \E limit \in 0..MaxLimit : paginator = Paginator(limit)
    /\ python \in {2, 3}
    /\ \E n \in 0..MaxView : view = [i \in 1..n |-> Digits[i]]
    /\ seen = <<>>

NextPaging ==
    \/ Paginator_get_page_first
    \/ Paginator_get_page_next
    \/ Paginator_get_page_previous
    \/ Paginator_get_page__really_callback_view

SpecPaging == InitPaging /\ [][NextPaging]_vars

(***************************************************************************)
(* Properties of the changes feed (checked under SpecChanges)              *)
(***************************************************************************)
Last(s) == s[Len(s)]

IsPrefix(s, t) == Len(s) <= Len(t) /\ SubSeq(t, 1, Len(s)) = s

\* The bytes of its feed request r has been handed so far.
Received(r) == SubSeq(wire[r], 1, pos[r])

\* The lines of a byte stream that a newline has ended.
EndedLines(bytes) ==
    LET pieces == split(bytes, "\n") IN SubSeq(pieces, 1, Len(pieces) - 1)

\* A line is well-formed when it is UTF-8, not blank, and a JSON document.
WellFormed(line) ==
    /\ decode(line).ok
    /\ strip(decode(line).text) # <<>>
    /\ json_loads(decode(line).text).ok

\* The events a byte stream holds: its well-formed ended lines, decoded.
RECURSIVE DecodedLines(_)
DecodedLines(lines) ==
    IF lines = <<>> THEN <<>>
    ELSE (IF WellFormed(Head(lines))
          THEN <<json_loads(decode(Head(lines)).text).value>>
          ELSE <<>>) \o DecodedLines(Tail(lines))

ExpectedEvents(bytes) == DecodedLines(EndedLines(bytes))

IsEvent(d) == d.kind = "TrombiDict"

Payloads(deliveries) == [i \in 1..Len(deliveries) |-> deliveries[i].msg]

\* The event deliveries request r's handler has had, and those still queued.
Delivered(r) == SelectSeq(handler[r], IsEvent)

QueuedFor(r) ==
    LET mine(cb) == cb.req = r /\ IsEvent(cb.arg)
        q == SelectSeq(ioloop, mine)
    IN  [i \in 1..Len(q) |-> q[i].arg]

\* A feed as a store sends it: valid UTF-8, and every JSON document in it
\* an object.
StoreFeed(bytes) ==
    /\ decode(bytes).ok
    /\ \A i \in 1..Len(split(bytes, "\n")) :
          LET obj == json_loads(decode(split(bytes, "\n")[i]).text)
          IN  obj.ok => obj.value.type = "dict"

\* C1: whatever the feed and however it is cut into chunks, the events
\* scheduled for the handler are, in order, the JSON-decodable non-blank
\* lines of the bytes received so far that a newline has ended, and no chunk
\* makes the decoder fail.  Stated for the feeds a store sends, where it
\* already fails.
C1_ScheduledAreEndedLines ==
    \A r \in Requests :
        StoreFeed(wire[r])
        => /\ state[r] # "failed"
           /\ Payloads(scheduled[r]) = ExpectedEvents(Received(r))

\* C2: a blank line or a line that does not decode gives no event, raises
\* nothing and does not stop the stream: on a feed of whole lines, once such
\* a line has been received the decoder has not failed, and once the io_loop
\* has run every callback the handler has had as many events as the bytes
\* received hold well-formed lines.
C2_BadLinesAreSkipped ==
    \A r \in Requests :
        (/\ wire[r] # <<>> /\ Last(wire[r]) = "\n"
         /\ \E i \in 1..Len(EndedLines(Received(r))) :
               ~WellFormed(EndedLines(Received(r))[i]))
        => /\ state[r] # "failed"
           /\ Len(scheduled[r]) <= Len(ExpectedEvents(Received(r)))
           /\ ioloop = <<>> => Len(Delivered(r)) = Len(ExpectedEvents(Received(r)))

\* C3: decoded events reach the handler only from the io_loop, never while
\* a chunk is being processed, and in the order of the byte stream, each
\* once: what the handler has had followed by what is still queued is
\* exactly what _stream scheduled, which is a run of the stream's events
\* from its start.
C3_InOrderFromLoop ==
    /\ [](\A r \in Requests :
            /\ Delivered(r) \o QueuedFor(r) = scheduled[r]
            /\ IsPrefix(Payloads(scheduled[r]), ExpectedEvents(Received(r))))
    /\ [][\A r \in Requests : pos'[r] # pos[r] => handler'[r] = handler[r]]_vars

\* C3 witness: the two different events of a feed went through the io_loop
\* to the handler, in the order of the feed.
C3_Witness ==
    /\ Len(Delivered(1)) = 2
    /\ Delivered(1)[1] # Delivered(1)[2]
    /\ Payloads(Delivered(1)) = ExpectedEvents(wire[1])
    /\ ioloop = <<>>
    /\ state[1] = "open"

\* C4: the handler gets events and then one terminal delivery (None or an
\* error object) and nothing after it: only the last delivery may be the
\* terminal one, and a completed request whose callbacks have all run has
\* had it.
C4_TerminalIsLast ==
    \A r \in Requests :
        /\ \A i \in 1..(Len(handler[r]) - 1) : IsEvent(handler[r][i])
        /\ (state[r] = "done" /\ ioloop = <<>>)
           => (handler[r] # <<>> /\ ~IsEvent(Last(handler[r])))

(***************************************************************************)
(* Properties of the request/response operations (checked under Spec)      *)
(***************************************************************************)
NonStreaming ==
    {"Server.create", "Server.get", "Server.delete", "Server.list",
     "Database.info", "Database.set", "Database.get", "Database.get_attachment",
     "Database.view", "Database.list", "Database.delete", "Database.bulk_docs",
     "Document.copy", "Document.attach", "Document.load_attachment",
     "Document.delete_attachment"}

IsError(d) == d.kind = "TrombiErrorResponse"

\* C5: a non-streaming operation calls the handler exactly once per call:
\* never more than once, and once when nothing of the call is in flight any
\* more.  (A Document.copy that its own assert refuses is no call.)
C5_HandlerCalledOnce ==
    (call.op \in NonStreaming /\ ~(call.op = "Document.copy" /\ ~call.persisted))
    => /\ Len(results) <= 1
       /\ pending = {} => Len(results) = 1

\* C6: Server.create and Server.get with a name that does not match
\* VALID_DB_NAME give the handler the invalid-database-name error and issue
\* no HTTP request.
C6_InvalidNameNoRequest ==
    (call.op \in {"Server.create", "Server.get"} /\ ~VALID_DB_NAME(call.name))
    => /\ fetches = 0
       /\ results = <<_invalid_db_name(call.name)>>

\* C7: whatever the operation, a transport failure (599, no body) gives the
\* handler the error object 599 'Unable to connect to CouchDB'.
C7_UnreachableIsError599 ==
    handled.code = 599
    => /\ raised = ""
       /\ results # <<>>
       /\ Last(results) = TrombiErrorResponse(599, PyStr(<<"Unable to connect to CouchDB">>))

\* The statuses a callback answers itself; it hands every other response to
\* _error_response.
OwnStatuses(cb) ==
    CASE cb = "Server.create" -> {201, 412}
      [] cb \in {"Server.get", "Server.delete", "Database.get", "Database.get_attachment"}
            -> {200, 404}
      [] cb \in {"Database.set", "Document.copy", "Document.attach"} -> {201}
      [] cb = "Database.bulk_docs" -> {200, 201}
      [] OTHER -> {200}

OtherStatus == handled.cb # "" /\ handled.code # 599 /\ handled.code \notin OwnStatuses(handled.cb)

HasReason(body) ==
    loads_body(body).exc = "" /\ subscript(loads_body(body).ret, "reason").exc = ""

\* C8 as claimed: for a status that is neither 599 nor one the operation
\* answers itself, the error has the status as its code and, as its message,
\* the body's 'reason' when the body is an object with one, the raw body in
\* every other case.
C8_MessageIsReasonOrRawBody ==
    OtherStatus
    => /\ results # <<>>
       /\ Last(results) =
            TrombiErrorResponse(handled.code,
                IF HasReason(handled.body)
                THEN subscript(loads_body(handled.body).ret, "reason").ret
                ELSE handled.body)

\* C8 as amended: the message is the body's 'reason' when the body is an
\* object with one, the raw body when the body does not decode, and the
\* decoded body (the dict, list or str, not its text) when it decodes but
\* has no 'reason'.
C8_MessageIsReasonOrContent ==
    OtherStatus
    => /\ results # <<>>
       /\ Last(results) =
            TrombiErrorResponse(handled.code,
                IF HasReason(handled.body)
                THEN subscript(loads_body(handled.body).ret, "reason").ret
                ELSE IF loads_body(handled.body).exc # "" THEN handled.body
                ELSE loads_body(handled.body).ret)

\* C8 witness: a conflict whose body is an object without 'reason' reached
\* the handler as an error whose message is the decoded object.
C8_Witness ==
    /\ handled.cb = "Database.set"
    /\ handled.code = 409
    /\ handled.body = PyBytes(encode(J_empty))
    /\ results = <<TrombiErrorResponse(409, [type |-> "dict", text |-> J_empty])>>

\* C9: Database.get and Database.get_attachment answer 404 with None, not
\* with an error object; an error object is delivered only for a status
\* other than 200 and 404.
C9_NotFoundIsNone ==
    handled.cb \in {"Database.get", "Database.get_attachment"}
    => /\ handled.code = 404 => results = <<Result("None")>>
       /\ (\E i \in 1..Len(results) : IsError(results[i])) => handled.code \notin {200, 404}

\* C9 witness: a document fetch answered 404 has called the handler with None.
C9_Witness ==
    /\ handled.cb = "Database.get"
    /\ handled.code = 404
    /\ results = <<Result("None")>>

\* C10: a load_attachment that had to fetch and was answered 404 gives the
\* handler None, not an error object.
C10_LoadAttachmentNotFoundIsNone ==
    (handled.cb = "Document.load_attachment" /\ handled.code = 404)
    => results = <<Result("None")>>

\* C11: a database-creation request answered 412 gives the handler the
\* precondition-failed error ('Database already exists') and no Database; a
\* Database is delivered by the creation callback for status 201 only.
C11_CreateConflictIsPreconditionFailed ==
    handled.cb = "Server.create"
    => /\ handled.code = 412
          => (/\ results # <<>>
              /\ Last(results) =
                    TrombiErrorResponse(PRECONDITION_FAILED,
                        PyStr(<<"Database already exists: ">> \o call.name))
              /\ \A i \in 1..Len(results) : results[i].kind # "Database")
       /\ (\E i \in 1..Len(results) : results[i].kind = "Database")
          => handled.code = 201

\* C11 witness: a creation of a validly named database was answered 412 and
\* the handler has had exactly the precondition-failed error.
C11_Witness ==
    /\ call.op = "Server.create"
    /\ VALID_DB_NAME(call.name)
    /\ handled.cb = "Server.create"
    /\ handled.code = 412
    /\ results = <<TrombiErrorResponse(PRECONDITION_FAILED,
                       PyStr(<<"Database already exists: ">> \o call.name))>>

(***************************************************************************)
(* Properties of Document (checked under SpecDocument)                     *)
(***************************************************************************)
\* The keys of the mapping a Document shows its user.
UserKeys(d) == {d.data[i][1] : i \in 1..Len(d.data)}

NoReservedKey(d) == \A key \in UserKeys(d) : ~startswith(key, "_")

\* A response whose body is an object with 'id' and 'rev', and the two.
HasIdRev(body) ==
    /\ loads_body(body).exc = ""
    /\ subscript(loads_body(body).ret, "id").exc = ""
    /\ subscript(loads_body(body).ret, "rev").exc = ""

BodyId(body) == subscript(loads_body(body).ret, "id").ret
BodyRev(body) == subscript(loads_body(body).ret, "rev").ret

\* C12: setting a key that starts with '_' fails with KeyError and leaves
\* the document as it was, whatever the document; and so the mapping of a
\* Document made from wire data and written to by set and delete never holds
\* a key that starts with '_'.
C12_NoReservedKeyInMapping ==
    /\ (call.op = "Document.__setitem__" /\ startswith(call.key, "_"))
       => (raised = "KeyError" /\ doc = call.doc)
    /\ NoReservedKey(doc)

\* A valid Document with its id and revision assigned.
ValidAssigned(d) == truthy(d.id) /\ truthy(d.rev) /\ NoReservedKey(d)

\* C13: the wire form Database.set sent for a valid Document with id and
\* revision, read back by Document(...), gives the same id, revision,
\* attachments and user fields, and the same wire form again.
C13_RawRoundTrip ==
    (call.op = "Database.set" /\ pending # {} /\ ValidAssigned(doc))
    => LET back == Document(call.body)
       IN  /\ back.id = doc.id
           /\ back.rev = doc.rev
           /\ dict_eq(back.attachments, doc.attachments)
           /\ dict_eq(back.data, doc.data)
           /\ dict_eq(Document_raw(back), call.body)
           /\ dict_eq(call.body, Document_raw(doc))

\* C13 witness: the wire form of a Document with id, revision, an attachment
\* and a user field was sent and reads back with all four.
C13_Witness ==
    /\ call.op = "Database.set"
    /\ pending # {}
    /\ ValidAssigned(doc)
    /\ doc.attachments # <<>>
    /\ doc.data # <<>>
    /\ Len(call.body) = 4
    /\ Document(call.body).attachments = doc.attachments
    /\ Document(call.body).data = doc.data

\* C16: Database.set assigns id and revision only on a 201 whose body gives
\* both, and then takes both from it; on every other response (another
\* status, no response at all, a body that does not parse) id and revision
\* are what they were when set was called and the handler has had an error
\* object.
C16_SetAssignsOnSuccessOnly ==
    (call.op = "Database.set" /\ handled.cb = "Database.set")
    => IF handled.code = 201 /\ HasIdRev(handled.body)
       THEN /\ doc.id = BodyId(handled.body)
            /\ doc.rev = BodyRev(handled.body)
            /\ results = <<Result("Document")>>
       ELSE /\ doc.id = call.doc.id
            /\ doc.rev = call.doc.rev
            /\ results # <<>>
            /\ IsError(Last(results))

\* The id the store was asked to write: the one in the URL (PUT), else the
\* '_id' of the body (POST); and a store that answers 201 with that id and
\* a revision.
AskedId ==
    IF call.doc_id # PyNone THEN call.doc_id
    ELSE IF has_key(call.body, "_id") THEN getitem(call.body, "_id")
    ELSE PyNone

StoreAnswersAskedId ==
    (handled.cb = "Database.set" /\ handled.code = 201)
    => (HasIdRev(handled.body) /\ AskedId \in {PyNone, BodyId(handled.body)})

\* C17: a Document whose id is assigned keeps it through Database.set (with
\* or without a doc_id argument), Document.attach,
\* Document.delete_attachment and Database.delete and their responses, the
\* store answering a write with the id it was asked to write.
C17_IdNeverChanges ==
    (/\ call.op \in {"Database.set", "Document.attach",
                     "Document.delete_attachment", "Database.delete"}
     /\ truthy(call.doc.id)
     /\ StoreAnswersAskedId)
    => doc.id = call.doc.id

\* C18: Document.attach on a Document with id and revision makes one
\* request; answered 201 with the document's id and a revision, the
\* Document's revision is that revision; answered with any other status, the
\* revision and the attachments are what they were, the handler has had the
\* error, and nothing more is in flight.
C18_AttachReplacesRevision ==
    (/\ call.op = "Document.attach"
     /\ truthy(call.doc.id) /\ truthy(call.doc.rev)
     /\ handled.cb = "Document.attach")
    => /\ fetches = 1
       /\ pending = {}
       /\ (/\ handled.code = 201
           /\ HasIdRev(handled.body)
           /\ BodyId(handled.body) = call.doc.id)
          => (/\ doc.rev = BodyRev(handled.body)
              /\ doc.id = call.doc.id
              /\ results = <<Result("Document")>>)
       /\ handled.code # 201
          => (/\ doc = call.doc
              /\ Len(results) = 1
              /\ IsError(results[1]))

\* C18 witness: an attach written with revision 1 was answered 201 with
\* revision 2, and the Document now has revision 2 and the stub.
C18_Witness ==
    /\ call.op = "Document.attach"
    /\ call.doc.rev = PyStr(<<"1">>)
    /\ handled.cb = "Document.attach"
    /\ handled.code = 201
    /\ doc.rev = PyStr(<<"2">>)
    /\ has_key(doc.attachments, "n")
    /\ results = <<Result("Document")>>

\* C19: Document.copy on a Document without id or revision fails at once
\* and makes no request; answered 201 with an id and a revision it delivers
\* a new Document with the source's user fields and that id and revision;
\* answered otherwise it delivers an error and makes no Document; and the
\* source Document is never changed.
C19_CopyMakesNewDocument ==
    call.op = "Document.copy"
    => /\ doc = call.doc
       /\ ~(truthy(call.doc.id) /\ truthy(call.doc.rev))
          => (fetches = 0 /\ results = <<>> /\ raised = "AssertionError")
       /\ (/\ handled.cb = "Document.copy"
           /\ handled.code = 201
           /\ HasIdRev(handled.body))
          => (/\ results = <<Result("Document")>>
              /\ entity.kind = "Document"
              /\ dict_eq(entity.doc.data, call.doc.data)
              /\ entity.doc.id = BodyId(handled.body)
              /\ entity.doc.rev = BodyRev(handled.body))
       /\ (handled.cb = "Document.copy" /\ handled.code # 201)
          => (/\ entity = NoEntity
              /\ Len(results) = 1
              /\ IsError(results[1]))

(***************************************************************************)
(* Properties of bulk writes (checked under Spec)                          *)
(***************************************************************************)
\* A bulk write answered with a success status and a list of objects.
BulkAnswered ==
    /\ handled.cb = "Database.bulk_docs"
    /\ handled.code \in {200, 201}
    /\ loads_body(handled.body).exc = ""
    /\ loads_body(handled.body).ret.type = "list"

\* C14: the BulkResult of a successful bulk write has one entry per item of
\* the response, in the order of the response (so one per submitted document
\* when the store answers each), and entry i is an error entry exactly when
\* item i has an 'error' field and an object entry holding item i otherwise,
\* whatever the other items are.
C14_BulkEntriesPerItem ==
    BulkAnswered
    => LET items == list_items(loads_body(handled.body).ret)
       IN  /\ results = <<Result("BulkResult")>>
           /\ entity.kind = "BulkResult"
           /\ Len(entity.content) = Len(items)
           /\ Len(items) = call.batch => Len(entity.content) = call.batch
           /\ \A i \in 1..Len(items) :
                 IF "error" \in dict_keys(items[i])
                 THEN /\ entity.content[i].kind = "BulkError"
                      /\ entity.content[i].raw = items[i]
                      /\ entity.content[i].error_type = dict_item(items[i], "error")
                 ELSE /\ entity.content[i].kind = "BulkObject"
                      /\ entity.content[i].data = items[i]

\* C14 witness: a batch of three with a conflict in the middle gave an
\* object entry, an error entry and an object entry.
C14_Witness ==
    /\ BulkAnswered
    /\ call.batch = 3
    /\ entity.kind = "BulkResult"
    /\ Len(entity.content) = 3
    /\ entity.content[1].kind = "BulkObject"
    /\ entity.content[2].kind = "BulkError"
    /\ entity.content[3].kind = "BulkObject"

\* C15: a bulk write answered 200 or 201 with a body that does not parse
\* gives the handler one error object with the status and the raw body, and
\* no BulkResult.
C15_BulkUnparseableIsOneError ==
    (/\ handled.cb = "Database.bulk_docs"
     /\ handled.code \in {200, 201}
     /\ IsValueError(loads_body(handled.body).exc))
    => /\ results = <<TrombiErrorResponse(handled.code, handled.body)>>
       /\ entity = NoEntity

\* C15 witness: a 201 whose body is not JSON reached the handler as the
\* error 201 with that body.
C15_Witness ==
    /\ handled.cb = "Database.bulk_docs"
    /\ handled.code = 201
    /\ handled.body = PyBytes(<<"x">>)
    /\ results = <<TrombiErrorResponse(201, PyBytes(<<"x">>))>>
    /\ entity = NoEntity

(***************************************************************************)
(* Properties of Paginator (checked under SpecPaginator)                   *)
(***************************************************************************)
\* get_page has succeeded: its callback got a ViewResult and called the
\* handler with the Paginator.
PageFetched ==
    /\ call.op = "Paginator.get_page"
    /\ handled.cb = "Paginator.get_page"
    /\ handled.code = 200
    /\ raised = ""
    /\ results = <<Result("Paginator")>>

\* C20: after a successful get_page with limit L on a response with offset
\* o and total t, the absolute offset is o going forward and t - o - L going
\* backward, and with it current_page = floor(offset / L) + 1, num_pages =
\* floor(t / L) + 1, has_previous iff offset - L >= 0, has_next iff
\* offset + L < t, previous_page = current_page - 1 and next_page =
\* current_page + 1.
C20_PageArithmetic ==
    PageFetched
    => LET L == paginator.limit
           o == paginator.response.offset
           t == paginator.response.total_rows
           offset == IF call.forward THEN o ELSE t - o - L
       IN  /\ paginator.start_index = offset
           /\ paginator.current_page = Whole((offset \div L) + 1)
           /\ paginator.num_pages = Whole((t \div L) + 1)
           /\ paginator.has_previous <=> (offset - L >= 0)
           /\ paginator.has_next <=> (offset + L < t)
           /\ paginator.previous_page = Whole(paginator.current_page.floor - 1)
           /\ paginator.next_page = Whole(paginator.current_page.floor + 1)

\* C20 witness: a page of 2 fetched backward from offset 0 of 3 rows: the
\* absolute offset is 1, on page 1 of 2, with no page before or after.
C20_Witness ==
    /\ PageFetched
    /\ ~call.forward
    /\ paginator.limit = 2
    /\ paginator.response.total_rows = 3
    /\ paginator.response.offset = 0
    /\ paginator.start_index = 1
    /\ paginator.current_page = Whole(1)
    /\ paginator.num_pages = Whole(2)
    /\ ~paginator.has_next
    /\ ~paginator.has_previous

\* The page delivered has no row.
EmptyPage == paginator.rows = PyList(<<>>)

NullSeeds ==
    /\ paginator.start_doc_id = PyNone
    /\ paginator.end_doc_id = PyNone

WalkedBack ==
    /\ pending = {}
    /\ Len(seen) >= 3
    /\ seen[Len(seen) - 2].step \in {"first", "next"}
    /\ seen[Len(seen) - 1].step = "next"
    /\ seen[Len(seen)].step = "previous"

\* C22: fetching page N forward and then fetching backward from page N's
\* first-row seed gives the rows of page N-1 as they were first delivered,
\* in the same order.
C22_BackwardReproducesPreviousPage ==
    WalkedBack => seen[Len(seen)].rows = seen[Len(seen) - 2].rows

(***************************************************************************)
(* Properties of concurrent changes requests (checked under SpecConcurrent)*)
(***************************************************************************)
\* The text of the line request r has received the start of and not yet
\* the end.
PartialLine(r) ==
    LET pieces == split(Received(r), "\n") IN decode(pieces[Len(pieces)]).text

\* C23: with two continuous changes requests open and their chunks handed
\* over in any order, what each handler has had and has queued is a run of
\* the events of its own byte stream from the start, in order; while no
\* chunk of the request has failed it is every event of the lines received,
\* and the request's buffer holds the unfinished line of its own stream.
C23_BufferPrivateToRequest ==
    \A r \in Requests :
        /\ Delivered(r) \o QueuedFor(r) = scheduled[r]
        /\ IsPrefix(Payloads(scheduled[r]), ExpectedEvents(Received(r)))
        /\ (state[r] = "open" /\ pos[r] > 0)
           => /\ Payloads(scheduled[r]) = ExpectedEvents(Received(r))
              /\ stream_buffer[r] = <<PartialLine(r)>>

\* C23 witness: request 1 was handed the start of its second line, request
\* 2 then the whole of its first line and the start of its second, and
\* request 1 then the rest: each handler has had its own two events.
C23_Witness ==
    /\ pos[1] = Len(wire[1])
    /\ pos[2] = Len(wire[2])
    /\ state[1] = "open"
    /\ state[2] = "open"
    /\ ioloop = <<>>
    /\ Payloads(Delivered(1)) = <<[type |-> "dict", text |-> J_a], [type |-> "dict", text |-> J_e9]>>
    /\ Payloads(Delivered(2)) = <<[type |-> "dict", text |-> J_empty], [type |-> "dict", text |-> J_a]>>

(***************************************************************************)
(* Properties of ViewResult (checked under SpecViewResult)                 *)
(***************************************************************************)
\* The row was received with a document.
HasDocument(row) == has_key(row, "doc") /\ truthy(getitem(row, "doc"))

\* C24: a row read once or more, by index or in a loop, has for its
\* document a Document with the id, the revision and the fields of the
\* document received.
C24_RowDocumentKeepsIdentity ==
    \A i \in 1..Len(entity.rows) :
        (entity.reads[i] >= 1 /\ HasDocument(entity.wire[i]))
        => getitem(entity.rows[i], "doc")
               = PyDocument(Document(getitem(entity.wire[i], "doc").items))

(***************************************************************************)
(* Properties of a Paginator over several fetches (under SpecPaginator)    *)
(***************************************************************************)
\* get_page's callback got an error object from Database.view and called
\* the handler with the Paginator.
PageFailed ==
    /\ call.op = "Paginator.get_page"
    /\ handled.cb = "Paginator.get_page"
    /\ handled.code # 200
    /\ results = <<Result("Paginator")>>

\* C25: the Paginator given to the handler reports an error exactly when
\* the view query of that fetch failed: after a fetch that failed its error
\* is the error object, after a fetch that succeeded it is False, whatever
\* the fetches before it did.
C25_ErrorIsOfThisFetch ==
    /\ PageFailed => paginator.error \in ViewErrors
    /\ PageFetched => paginator.error = Result("False")

====
